---- MODULE Spec2Model ----
(***************************************************************************)
(* The retry orchestrator callWithRetry of the speaking-practice tutor.    *)
(* The repository carries two revisions of the service module:             *)
(*   "geminiService" : src/services/geminiService.ts                       *)
(*   "part_000"      : src/unnamed/part_000                                *)
(* Both are modelled; the variable version says which one is running.      *)
(*                                                                         *)
(* Strings are modelled as sequences of words (tokens).  String.includes   *)
(* is membership of a word, toLowerCase maps every word to its lower-case  *)
(* form, concatenation is \o.  The empty sequence is the absent or empty   *)
(* string (both are falsy in `err?.message || ...`).                       *)
(* A duration is the exact rational num/den milliseconds (2.5 = 5/2).      *)
(***************************************************************************)
EXTENDS Integers, Sequences, FiniteSets, TLC

\* ------------------------------------------------------------------ bounds
\* largest retry budget a caller passes
MaxMaxRetries == 4

\* the retry budgets a caller may pass: negative, zero and positive
MaxRetriesChoices == (0 - 1)..MaxMaxRetries

\* the orchestrated calls that may be in flight together
Calls == {1, 2}

\* results the wrapped operation may resolve with
Values == {"v1", "v2"}

\* --------------------------------------------------------- program constants
DefaultMaxRetries == 4
InitialDelay == [num |-> 1500, den |-> 1]
BackoffNum == 5
BackoffDen == 2
QuotaStatus == 429

Versions == {"geminiService", "part_000"}

\* ------------------------------------------------------------------ strings
NoStatus == 0

ToLowerCase_word(w) ==
    CASE w = "Quota" -> "quota"
      [] w = "QUOTA" -> "quota"
      [] w = "RESOURCE_EXHAUSTED" -> "resource_exhausted"
      [] w = "Rate_Limit" -> "rate_limit"
      [] OTHER -> w

\* String.prototype.toLowerCase
ToLowerCase(s) == [k \in 1..Len(s) |-> ToLowerCase_word(s[k])]

\* String.prototype.includes (case-sensitive)
Includes(s, w) == \E k \in 1..Len(s) : s[k] = w

\* the text of a numeric status in a serialized error
StatusText(st) == IF st = QuotaStatus THEN "429" ELSE "status"

\* JSON.stringify(err): the own enumerable properties.  The message of an
\* Error instance is not enumerable and is left out; the message of a plain
\* object is included.
Stringify(err) ==
    (IF err.status # NoStatus THEN <<StatusText(err.status)>> ELSE <<>>)
    \o (IF ~err.inst THEN err.message ELSE <<>>)
    \o err.props

\* new Error(message)
NewError(msg) == [inst |-> TRUE, status |-> NoStatus, message |-> msg, props |-> <<>>]

\* -------------------------------------------------- failures of the operation
\* { status: 429, message: "Too Many Requests" } thrown as an Error
ErrTooMany == [inst |-> TRUE, status |-> 429, message |-> <<"Too Many Requests">>, props |-> <<>>]
\* plain object { message: "quota exceeded", error: { status: "RESOURCE_EXHAUSTED" } }
ErrQuotaObject == [inst |-> FALSE, status |-> NoStatus, message |-> <<"quota", "exceeded">>,
                   props |-> <<"RESOURCE_EXHAUSTED">>]
\* new Error("Quota exceeded")
ErrQuotaMessage == [inst |-> TRUE, status |-> NoStatus, message |-> <<"Quota", "exceeded">>, props |-> <<>>]
\* { status: 400, message: "API key not valid" } thrown as an Error
ErrBadKey == [inst |-> TRUE, status |-> 400, message |-> <<"API key not valid">>, props |-> <<>>]
\* plain object { status: 500 } without a message
ErrNoMessage == [inst |-> FALSE, status |-> 500, message |-> <<>>, props |-> <<>>]

Errors == {ErrTooMany, ErrQuotaObject, ErrQuotaMessage, ErrBadKey, ErrNoMessage}

NoError == [inst |-> FALSE, status |-> NoStatus, message |-> <<>>, props |-> <<"null">>]

\* ------------------------------------------------------------ callWithRetry
VARIABLES
    version,     \* which revision of the service module runs
    maxRetries,  \* parameter maxRetries of each call
    i,           \* loop index of each call
    delay,       \* local delay of each call
    lastError,   \* local lastError of each call (part_000 only)
    pc,          \* "idle", "inflight" (await fn()), "waiting" (await setTimeout), "done"
    inflight,    \* invocations of fn not yet settled
    timers,      \* backoff timers not yet fired
    calls,       \* invocations of fn made so far
    waits,       \* the backoff waits started so far, in order
    history,     \* how each settled attempt ended, in order
    outcome      \* how the call settled

\* the service operations around callWithRetry
VARIABLES
    hasKey,      \* an API key is configured (localStorage gemini_api_key, App state apiKey)
    cache,       \* wordMeaningCache: clean word -> cached value, or "none"
    op,          \* the operation running, or "none"
    opArg,       \* its argument (the word of getWordMeaning)
    opPc,        \* "idle", "media" (await getUserMedia), "backend" (await the backend call),
                 \* "waiting" (backoff wait of callWithRetry), "done"
    opScript,    \* callWithRetry of the operation: how each attempt of fn ended
    opModel,     \* index of the model the operation's own loop is trying
    backend,     \* the backend calls the operation has issued, in order
    opOutcome    \* how the operation settled

\* the App component
VARIABLES
    status,          \* AppStatus
    errorMessage,    \* the message shown, <<>> when null
    lastAction,      \* the handler to retry, or "null"
    presentation,    \* a presentation has been generated
    transcript,      \* the transcript is not empty
    isAudioLoading,
    audioState,      \* "idle", "playing", "paused"
    liveSession,     \* liveSessionRef.current is set
    themeText,       \* a theme is selected or typed
    running,         \* per await of a handler: the invocations suspended there
    lastStep,        \* the handler step taken last, and the operation it was about
    result,          \* an evaluation result is set
    intervalLeaked,  \* an interval runs whose id timerIntervalRef.current no longer holds
    timerIntervalRef \* timerIntervalRef.current: "live" (the id of a running interval) or
                     \* "none" (null, or the id of an interval already cleared)

\* the lesson history service
VARIABLES
    store,       \* localStorage[STORAGE_KEY]: Absent, Corrupt, or the records in order
    now,         \* the clock, in ticks
    changes,     \* saves, deletions and clearings since the start
    histOp,      \* the operation of the service called last, with its argument
    histRet      \* what it returned

\* the audio codec
VARIABLES
    bytes,       \* the byte sequence given to encode
    base64,      \* the text encode returned
    decoded,     \* the bytes decode returned for it
    codecPc      \* "idle", "input", "encoded", "decoded"

\* the decoding of PCM audio
VARIABLES
    pcm,          \* data: the bytes given to decodeAudioData
    numChannels,  \* the channel count given to it
    audioOut,     \* how the call settled: the AudioBuffer, or the error thrown
    audioPc       \* "idle", "input", "done"

\* the script handleGenerate stores
VARIABLES
    scriptData,   \* what generatePresentationScript resolved with
    childName,    \* the name typed in the header
    presented,    \* the intro, points and conclusion given to setPresentation
    scriptPc      \* "idle", "received", "stored"

\* the lookups of word meanings
VARIABLES
    lookups       \* per call of getWordMeaning: its word, where it is, its result

retryVars == <<maxRetries, i, delay, lastError, pc, inflight, timers, calls, waits, history, outcome>>
opsVars == <<hasKey, cache, op, opArg, opPc, opScript, opModel, backend, opOutcome>>

appVars == <<status, errorMessage, lastAction, presentation, transcript, isAudioLoading,
            audioState, liveSession, themeText, running, lastStep, result, intervalLeaked,
            timerIntervalRef>>

historyVars == <<store, now, changes, histOp, histRet>>

codecVars == <<bytes, base64, decoded, codecPc>>

audioVars == <<pcm, numChannels, audioOut, audioPc>>

scriptVars == <<scriptData, childName, presented, scriptPc>>

lookupVars == <<lookups>>

\* everything but the state of the orchestrated calls
nonRetryVars == <<opsVars, appVars, historyVars, codecVars, audioVars, scriptVars, lookupVars>>
\* everything but the state of the service operations
nonOpsVars == <<retryVars, appVars, historyVars, codecVars, audioVars, scriptVars, lookupVars>>
\* everything but the state of the App component
nonAppVars == <<retryVars, opsVars, historyVars, codecVars, audioVars, scriptVars, lookupVars>>
\* everything but the state of the lesson history
nonHistoryVars == <<retryVars, opsVars, appVars, codecVars, audioVars, scriptVars, lookupVars>>
\* everything but the state of the audio codec
nonCodecVars == <<retryVars, opsVars, appVars, historyVars, audioVars, scriptVars, lookupVars>>
\* everything but the state of the PCM decoding
nonAudioVars == <<retryVars, opsVars, appVars, historyVars, codecVars, scriptVars, lookupVars>>
\* everything but the script handleGenerate stores
nonScriptVars == <<retryVars, opsVars, appVars, historyVars, codecVars, audioVars, lookupVars>>

\* everything a lookup of a word meaning leaves alone: all but the cache
nonLookupVars == <<hasKey, op, opArg, opPc, opScript, opModel, backend, opOutcome,
                   retryVars, appVars, historyVars, codecVars, audioVars, scriptVars>>

vars == <<version, retryVars, opsVars, appVars, historyVars, codecVars, audioVars,
          scriptVars, lookupVars>>

NoOutcome == [kind |-> "pending"]
Returned_fixed(v) == [kind |-> "returned", value |-> "v1"]
Returned(v) == [kind |-> "returned", value |-> v]
Threw(err) == [kind |-> "threw", error |-> err]

Resolved(v) == [ok |-> TRUE, value |-> v]
Rejected(err) == [ok |-> FALSE, error |-> err]

\* the activation record that holds the locals of call c
Frame_shared(c) == 1
Frame(c) == c

\* isQuotaError
IsQuotaError(ver, err) ==
    LET errorStr == ToLowerCase(Stringify(err))
        errMessage == ToLowerCase(err.message)
    IN  \/ err.status = QuotaStatus
        \/ IF ver = "geminiService" THEN Includes(err.message, "429")
                                    ELSE Includes(errMessage, "429")
        \/ Includes(errorStr, "quota")
        \/ Includes(errorStr, "resource_exhausted")
        \/ Includes(errorStr, "rate_limit")

\* isQuotaError && i < maxRetries - 1
ShouldRetry_anyError(q, k, m) == k < m - 1
ShouldRetry(q, k, m) == q /\ k < m - 1

\* setTimeout(resolve, delay): one more pending timer
ScheduleTimer_lost(t) == t
ScheduleTimer(t) == t + 1

\* delay *= 2.5
NextDelay_doubling(d) == [num |-> d.num * 2, den |-> d.den]
NextDelay(d) == [num |-> d.num * BackoffNum, den |-> d.den * BackoffDen]

ServerBusyMessage(ver) ==
    IF ver = "geminiService" THEN <<"MAY CHU BAN:", "Be vui long cho 30 giay">>
                             ELSE <<"MAY CHU BAN:", "Ms Ly AI dang phuc vu qua nhieu ban nho">>

\* the error thrown from the catch block when the failure is not retried
CatchThrow(ver, err) ==
    IF ver = "geminiService"
    THEN err
    ELSE NewError(IF err.message # <<>> THEN err.message
                                        ELSE <<"Loi API:">> \o Stringify(err))

\* the error thrown after the loop
AfterLoopThrow(ver, last) ==
    IF ver = "geminiService"
    THEN NewError(ServerBusyMessage(ver))
    ELSE LET actualMessage == IF last.message # <<>> THEN last.message ELSE <<"Unknown error">>
         IN  IF Includes(actualMessage, "quota") \/ Includes(actualMessage, "429")
             THEN NewError(ServerBusyMessage(ver))
             ELSE NewError(<<"Loi:">> \o actualMessage)

\* ------------------------------------------------ the service operations
\* the AI operations: the exports of the service module and startRecording of App
Ops == {"generateIllustration", "generatePresentationScript", "generateTeacherVoice",
        "evaluatePresentation", "getWordMeaning", "speakWord",
        "generateComprehensionQuestions", "startRecording"}

\* words looked up
Words == {"Cat", "cat.", "dog"}
NoWord == "none"
NoValue == "none"

\* word.toLowerCase().replace(/[.,!?;:'"()]/g, '').trim()
CleanWord(w) ==
    CASE w = "Cat" -> "cat"
      [] w = "cat." -> "cat"
      [] OTHER -> w

CleanWords == {CleanWord(w) : w \in Words}

\* what a backend call resolves with: a response with content, or one without
Responses == {"v1", "empty"}

\* what a backend call rejects with
BackendErrors == {ErrTooMany, ErrBadKey}

imageModels == <<"gemini-2.0-flash-exp-image-generation", "imagen-3.0-generate-001",
                 "gemini-2.5-flash-preview-image", "gemini-2.0-flash-image-generation">>
ttsModels == <<"gemini-2.5-flash-preview-tts", "gemini-2.5-pro-preview-tts", "gemini-2.0-flash-live">>

\* new Error("Vui lòng nhập API Key để sử dụng app.")
ErrMissingKey == NewError(<<"Vui long nhap API Key de su dung app.">>)
\* new Error("Không tạo được ảnh minh họa."), new Error("Audio error")
ErrNoContent == NewError(<<"no content">>)
\* new Error('TTS_FALLBACK_TO_WEB_SPEECH')
ErrTtsFallback == NewError(<<"TTS_FALLBACK_TO_WEB_SPEECH">>)
\* the rejection of navigator.mediaDevices.getUserMedia
ErrMedia == NewError(<<"Permission denied">>)

\* the body of operation o is the callback of a callWithRetry
Wrapped(ver, o) ==
    \/ o \in {"generatePresentationScript", "evaluatePresentation", "getWordMeaning",
               "generateComprehensionQuestions"}
    \/ ver = "geminiService" /\ o \in {"generateIllustration", "generateTeacherVoice"}

\* operation o tests getApiKey() before it calls the backend
ChecksKey(o) == o # "startRecording"

\* the models operation o tries one after the other in a loop of its own
OwnModels(ver, o) ==
    IF ver = "part_000" /\ o = "generateIllustration" THEN imageModels
    ELSE IF ver = "part_000" /\ o = "generateTeacherVoice" THEN ttsModels
    ELSE <<"model">>

\* a backend call of operation o for model m, issued inside callWithRetry or
\* not, with an API key or with the empty one
BackendCall(o, m, r, k) == [op |-> o, model |-> m, inRetry |-> r, key |-> k]

OpsInit ==
    /\ hasKey = FALSE
    /\ cache = [w \in CleanWords |-> NoValue]
    /\ op = "none"
    /\ opArg = NoWord
    /\ opPc = "idle"
    /\ opScript = <<>>
    /\ opModel = 0
    /\ backend = <<>>
    /\ opOutcome = NoOutcome

\* ------------------------------------------------------- the App component
\* invocations of handlers that may be suspended together
MaxInFlight == 2

\* the handlers that call an AI operation
Handlers == {"handleGenerate", "playTeacherVoice", "startRecording", "handleSubmitEvaluation"}

\* the awaits of the handlers; startRecording awaits getUserMedia and then
\* ("connect") the live session
Awaits == Handlers \cup {"connect"}
HandlerOf(a) == IF a = "connect" THEN "startRecording" ELSE a

\* the invocations suspended in r
InFlight(r) ==
    r["handleGenerate"] + r["playTeacherVoice"] + r["startRecording"] + r["connect"]
    + r["handleSubmitEvaluation"]

NoAction == "null"
NoStep == [kind |-> "none", op |-> NoAction]
\* a step that is neither a failure of a handler nor a press of Retry
OtherStep == [kind |-> "other", op |-> NoAction]

\* what a handler's await rejects with
AppErrors == {ErrTooMany, ErrQuotaObject, ErrNoMessage}

AppBusyMessage == <<"MAY CHU BAN:", "Ms Ly AI dang phuc vu qua nhieu ban nho">>
AppDefaultMessage == <<"Oi, co loi nho roi! Thu lai lan nua nhe con.">>

AppInit ==
    /\ status = "IDLE"
    /\ errorMessage = <<>>
    /\ lastAction = NoAction
    /\ presentation = FALSE
    /\ transcript = FALSE
    /\ isAudioLoading = FALSE
    /\ audioState = "idle"
    /\ liveSession = FALSE
    /\ themeText = FALSE
    /\ running = [a \in Awaits |-> 0]
    /\ lastStep = NoStep
    /\ result = FALSE
    /\ intervalLeaked = FALSE
    /\ timerIntervalRef = "none"

\* ------------------------------------------------------- the lesson history
EXPIRY_DAYS == 7
\* the days getLessonsGroupedByDay lists
GroupedDays == 7
\* the default limit of getRecentLessons
DefaultLimit == 5

\* the clock counts half days: 1000 * 60 * 60 * 24 ms are TicksPerDay ticks
TicksPerDay == 2

\* changes made to the store in a session, and how far the clock runs
MaxChanges == 2
MaxTicks == 1
\* the largest limit passed to getRecentLessons
MaxLimit == 2

\* the stored text: none (localStorage.getItem gives null), one that
\* JSON.parse rejects, or the JSON of a list of records
Absent == [kind |-> "absent", records |-> <<>>]
Corrupt == [kind |-> "corrupt", records |-> <<>>]
Stored(recs) == [kind |-> "records", records |-> recs]

\* evaluation.score has one decimal: scores are counted in tenths
Scores == {75, 80}
Randoms == {1, 2}
\* the lessons a session saves: the random part of the id, the score
SavedLessons == {l \in [rnd : Randoms, score : Scores] : (l.rnd = 1) <=> (l.score = 75)}

\* the days, before the day the session starts, on which earlier sessions
\* may have saved a record (in the evening)
EarlierDays == 0..EXPIRY_DAYS
\* the session starts in the morning of the day after
StartNow == (EXPIRY_DAYS + 1) * TicksPerDay

\* the record of saveLessonRecord at time t: id from Date.now() and
\* Math.random(), date new Date().toISOString(), score evaluation.score
NewRecord(t, rnd, score) == [id |-> <<t, rnd>>, date |-> t, score |-> score]

\* new Date(record.date).getTime()
TimeOf(date) == date
\* date.split('T')[0] of an ISO date: the calendar day (UTC)
DateKey(date) == date \div TicksPerDay

NoHistOp == [name |-> "none", arg |-> 0]

HistoryInit ==
    /\ store = Absent
    /\ now = StartNow
    /\ changes = 0
    /\ histOp = NoHistOp
    /\ histRet = <<>>

RetryInit ==
    /\ maxRetries = [c \in Calls |-> DefaultMaxRetries]
    /\ i = [c \in Calls |-> 0]
    /\ delay = [c \in Calls |-> InitialDelay]
    /\ lastError = [c \in Calls |-> NoError]
    /\ pc = [c \in Calls |-> "idle"]
    /\ inflight = [c \in Calls |-> 0]
    /\ timers = [c \in Calls |-> 0]
    /\ calls = [c \in Calls |-> 0]
    /\ waits = [c \in Calls |-> <<>>]
    /\ history = [c \in Calls |-> <<>>]
    /\ outcome = [c \in Calls |-> NoOutcome]

\* ------------------------------------------------------------ the audio codec
\* the longest byte sequence encoded
MaxBytes == 3

\* the byte values tried
ByteValues == {0, 1, 127, 128, 255}

CodecInit ==
    /\ bytes = <<>>
    /\ base64 = <<>>
    /\ decoded = <<>>
    /\ codecPc = "idle"

\* ------------------------------------------------------- decoding PCM audio
\* the most 16-bit samples and the most channels given to decodeAudioData
MaxSamples == 10
MaxChannels == 3

\* no AudioBuffer and no error yet
NoAudio == [kind |-> "none", name |-> "none", channels |-> <<>>]

AudioInit ==
    /\ pcm = <<>>
    /\ numChannels = 1
    /\ audioOut = NoAudio
    /\ audioPc = "idle"

\* ------------------------------------------------- the script of a lesson
\* the longest text of a script tried
MaxTextLen == 4

\* the characters of a text: a period, two kinds of white space, a letter,
\* and the placeholder [Name] as one token
Period == "."
Space == " "
Tab == "TAB"
NameToken == "[Name]"
ScriptChars == {Period, Space, Tab, "a", NameToken}

NoScript == [intro |-> <<>>, points |-> <<>>, conclusion |-> <<>>]

ScriptInit ==
    /\ scriptData = NoScript
    /\ childName = <<"L", "e", "o">>
    /\ presented = NoScript
    /\ scriptPc = "idle"

\* ------------------------------------------------ lookups of word meanings
\* the calls of getWordMeaning in a session
MaxLookups == 3
Lookups == 1..MaxLookups

\* a call of getWordMeaning not made yet
NoLookup == [word |-> NoWord, pc |-> "idle", script |-> <<>>, called |-> FALSE, known |-> {},
             outcome |-> NoOutcome]

LookupInit == lookups = [l \in Lookups |-> NoLookup]

Init ==
    /\ version \in Versions
    /\ RetryInit
    /\ OpsInit
    /\ AppInit
    /\ HistoryInit
    /\ CodecInit
    /\ AudioInit
    /\ ScriptInit
    /\ LookupInit

\* fn() is invoked and awaited
InvokeFn(c) ==
    /\ pc' = [pc EXCEPT ![c] = "inflight"]
    /\ inflight' = [inflight EXCEPT ![c] = @ + 1]
    /\ calls' = [calls EXCEPT ![c] = @ + 1]

\* the promise of the call settles
Settle(c, o) ==
    /\ pc' = [pc EXCEPT ![c] = "done"]
    /\ outcome' = [outcome EXCEPT ![c] = o]

\* the loop condition i < maxRetries with index k, then the body or the exit
LoopHead(c, k, m, last) ==
    IF k < m
    THEN InvokeFn(c) /\ UNCHANGED outcome
    ELSE Settle(c, Threw(AfterLoopThrow(version, last))) /\ UNCHANGED <<inflight, calls>>

\* callWithRetry(fn, m) is called: runs up to the first await
Start(c, m) ==
    /\ pc[c] = "idle"
    /\ maxRetries' = [maxRetries EXCEPT ![Frame(c)] = m]
    /\ delay' = [delay EXCEPT ![Frame(c)] = InitialDelay]
    /\ lastError' = [lastError EXCEPT ![Frame(c)] = NoError]
    /\ i' = [i EXCEPT ![Frame(c)] = 0]
    /\ LoopHead(c, 0, m, NoError)
    /\ UNCHANGED <<version, timers, waits, history>>
    /\ UNCHANGED nonRetryVars

\* the awaited fn() resolves with v: return await fn()
FnResolves(c, v) ==
    /\ pc[c] = "inflight"
    /\ inflight[c] > 0
    /\ inflight' = [inflight EXCEPT ![c] = @ - 1]
    /\ history' = [history EXCEPT ![c] = Append(@, Resolved(v))]
    /\ Settle(c, Returned(v))
    /\ UNCHANGED <<version, maxRetries, i, delay, lastError, timers, calls, waits>>
    /\ UNCHANGED nonRetryVars

\* the catch block with the backoff timer started but not awaited
FnRejects_noAwait(c, err) ==
    LET f == Frame(c)
        q == IsQuotaError(version, err)
    IN
    /\ pc[c] = "inflight"
    /\ inflight[c] > 0
    /\ history' = [history EXCEPT ![c] = Append(@, Rejected(err))]
    /\ IF ShouldRetry(q, i[f], maxRetries[f])
       THEN /\ timers' = [timers EXCEPT ![c] = ScheduleTimer(@)]
            /\ waits' = [waits EXCEPT ![c] = Append(@, delay[f])]
            /\ delay' = [delay EXCEPT ![f] = NextDelay(@)]
            /\ i' = [i EXCEPT ![f] = @ + 1]
            /\ calls' = [calls EXCEPT ![c] = @ + 1]
            /\ UNCHANGED <<pc, inflight, outcome>>
       ELSE /\ inflight' = [inflight EXCEPT ![c] = @ - 1]
            /\ Settle(c, Threw(CatchThrow(version, err)))
            /\ UNCHANGED <<i, delay, timers, calls, waits>>
    /\ UNCHANGED <<version, maxRetries, lastError>>
    /\ UNCHANGED nonRetryVars

\* the awaited fn() rejects with err: the catch block, up to its await or throw
FnRejects(c, err) ==
    LET f == Frame(c)
        q == IsQuotaError(version, err)
        last == IF version = "part_000" THEN err ELSE lastError[f]
    IN
    /\ pc[c] = "inflight"
    /\ inflight[c] > 0
    /\ history' = [history EXCEPT ![c] = Append(@, Rejected(err))]
    /\ lastError' = [lastError EXCEPT ![f] = last]
    /\ IF ShouldRetry(q, i[f], maxRetries[f])
       THEN /\ pc' = [pc EXCEPT ![c] = "waiting"]
            /\ inflight' = [inflight EXCEPT ![c] = @ - 1]
            /\ timers' = [timers EXCEPT ![c] = ScheduleTimer(@)]
            /\ waits' = [waits EXCEPT ![c] = Append(@, delay[f])]
            /\ UNCHANGED <<i, calls, outcome>>
       ELSE IF version = "geminiService" \/ ~q
       THEN /\ inflight' = [inflight EXCEPT ![c] = @ - 1]
            /\ Settle(c, Threw(CatchThrow(version, err)))
            /\ UNCHANGED <<i, timers, calls, waits>>
       ELSE \* part_000: the catch block ends, i++, the loop condition
            /\ i' = [i EXCEPT ![f] = @ + 1]
            /\ IF i[f] + 1 < maxRetries[f]
               THEN /\ pc' = pc
                    /\ inflight' = inflight
                    /\ calls' = [calls EXCEPT ![c] = @ + 1]
                    /\ UNCHANGED outcome
               ELSE /\ inflight' = [inflight EXCEPT ![c] = @ - 1]
                    /\ Settle(c, Threw(AfterLoopThrow(version, last)))
                    /\ UNCHANGED calls
            /\ UNCHANGED <<timers, waits>>
    /\ UNCHANGED <<version, maxRetries, delay>>
    /\ UNCHANGED nonRetryVars

\* the backoff timer fires: delay *= 2.5; continue; i++; the loop condition
TimerFires(c) ==
    LET f == Frame(c) IN
    /\ pc[c] = "waiting"
    /\ timers[c] > 0
    /\ timers' = [timers EXCEPT ![c] = @ - 1]
    /\ delay' = [delay EXCEPT ![f] = NextDelay(@)]
    /\ i' = [i EXCEPT ![f] = @ + 1]
    /\ LoopHead(c, i[f] + 1, maxRetries[f], lastError[f])
    /\ UNCHANGED <<version, maxRetries, lastError, waits, history>>
    /\ UNCHANGED nonRetryVars

Next ==
    \/ \E c \in Calls, m \in MaxRetriesChoices : Start(c, m)
    \/ \E c \in Calls, v \in Values : FnResolves(c, v)
    \/ \E c \in Calls, err \in Errors : FnRejects(c, err)
    \/ \E c \in Calls : TimerFires(c)

Spec == Init /\ [][Next]_vars

\* under fairness: every invocation of fn settles and every backoff timer fires
FairSpec ==
    /\ Spec
    /\ \A c \in Calls : WF_vars((\E v \in Values : FnResolves(c, v)) \/ (\E err \in Errors : FnRejects(c, err)))
    /\ \A c \in Calls : WF_vars(TimerFires(c))

\* callWithRetry run alone on the attempt results of script, from loop index k
\* with delay d: the waits it starts and how it settles
RECURSIVE RunAlone(_, _, _, _, _, _)
RunAlone(ver, m, script, k, d, last) ==
    IF ~(k < m)
    THEN [waits |-> <<>>, outcome |-> Threw(AfterLoopThrow(ver, last))]
    ELSE IF script = <<>>
    THEN [waits |-> <<>>, outcome |-> NoOutcome]
    ELSE LET r == Head(script) IN
         IF r.ok
         THEN [waits |-> <<>>, outcome |-> Returned(r.value)]
         ELSE LET q == IsQuotaError(ver, r.error)
                  nextLast == IF ver = "part_000" THEN r.error ELSE last
              IN  IF ShouldRetry(q, k, m)
                  THEN LET rest == RunAlone(ver, m, Tail(script), k + 1, NextDelay(d), nextLast)
                       IN  [waits |-> <<d>> \o rest.waits, outcome |-> rest.outcome]
                  ELSE IF ver = "geminiService" \/ ~q
                  THEN [waits |-> <<>>, outcome |-> Threw(CatchThrow(ver, r.error))]
                  ELSE RunAlone(ver, m, Tail(script), k + 1, d, nextLast)

\* ------------------------------------------- the operations, step by step
\* the promise of the operation settles
OpSettle(o) ==
    /\ opPc' = "done"
    /\ opOutcome' = o
    /\ UNCHANGED <<opScript, opModel, backend>>

\* an attempt of the callback given to callWithRetry has ended with r:
\* callWithRetry returns, throws, or starts a backoff wait
OpAttemptEnds(r) ==
    LET script == Append(opScript, r)
        run == RunAlone(version, DefaultMaxRetries, script, 0, InitialDelay, NoError)
    IN  /\ opScript' = script
        /\ IF run.outcome.kind = "pending"
           THEN opPc' = "waiting" /\ UNCHANGED opOutcome
           ELSE opPc' = "done" /\ opOutcome' = run.outcome
        /\ UNCHANGED <<opModel, backend>>

\* the callback given to callWithRetry runs up to its first await
OpInvokeFn(o) ==
    IF ~hasKey
    THEN OpAttemptEnds(Rejected(ErrMissingKey))
    ELSE /\ backend' = Append(backend, BackendCall(o, OwnModels(version, o)[1], TRUE, hasKey))
         /\ opPc' = "backend"
         /\ UNCHANGED <<opScript, opModel, opOutcome>>

\* the loop of the operation over its models reaches model k, or is over
OpTryModel(o, k) ==
    /\ opModel' = k
    /\ UNCHANGED opScript
    /\ IF k <= Len(OwnModels(version, o))
       THEN /\ backend' = Append(backend, BackendCall(o, OwnModels(version, o)[k], FALSE, hasKey))
            /\ opPc' = "backend"
            /\ UNCHANGED opOutcome
       ELSE /\ UNCHANGED backend
            /\ IF o = "generateIllustration"
               THEN opPc' = "fetch" /\ UNCHANGED opOutcome
               ELSE opPc' = "done" /\ opOutcome' = Threw(ErrTtsFallback)

\* operation o is called (with word w): runs up to its first await
OpCall(o, w) ==
    /\ opPc = "idle"
    /\ op' = o
    /\ opArg' = w
    /\ IF o = "getWordMeaning" /\ cache[CleanWord(w)] # NoValue
       THEN OpSettle(Returned(cache[CleanWord(w)]))
       ELSE IF Wrapped(version, o)
       THEN OpInvokeFn(o)
       ELSE IF o = "startRecording"
       THEN opPc' = "media" /\ UNCHANGED <<opScript, opModel, backend, opOutcome>>
       ELSE IF ChecksKey(o) /\ ~hasKey
       THEN OpSettle(Threw(ErrMissingKey))
       ELSE OpTryModel(o, 1)
    /\ UNCHANGED <<version, hasKey, cache>>
    /\ UNCHANGED nonOpsVars

\* startRecording: getUserMedia resolves, the recorder starts and the live
\* session is requested with the key of the App state
OpMediaResolves ==
    /\ opPc = "media"
    /\ OpTryModel(op, 1)
    /\ UNCHANGED <<version, hasKey, cache, op, opArg>>
    /\ UNCHANGED nonOpsVars

\* startRecording: getUserMedia rejects
OpMediaRejects ==
    /\ opPc = "media"
    /\ OpSettle(Threw(ErrMedia))
    /\ UNCHANGED <<version, hasKey, cache, op, opArg>>
    /\ UNCHANGED nonOpsVars

\* the response v has no content and the callback of o throws for that
ThrowsOnEmpty(ver, o, v) ==
    v = "empty" /\ ver = "geminiService" /\ o \in {"generateIllustration", "generateTeacherVoice"}

\* the backend call resolves with v
OpBackendResolves(v) ==
    /\ opPc = "backend"
    /\ IF Wrapped(version, op)
       THEN IF ThrowsOnEmpty(version, op, v)
            THEN OpAttemptEnds(Rejected(ErrNoContent)) /\ UNCHANGED cache
            ELSE /\ OpAttemptEnds(Resolved(v))
                 /\ cache' = IF op = "getWordMeaning"
                              THEN [cache EXCEPT ![CleanWord(opArg)] = v]
                              ELSE cache
       ELSE /\ UNCHANGED cache
            /\ IF op \in {"speakWord", "startRecording"} \/ v # "empty"
               THEN OpSettle(Returned(v))
               ELSE OpTryModel(op, opModel + 1)
    /\ UNCHANGED <<version, hasKey, op, opArg>>
    /\ UNCHANGED nonOpsVars

\* the backend call rejects with err
OpBackendRejects(err) ==
    /\ opPc = "backend"
    /\ IF Wrapped(version, op)
       THEN OpAttemptEnds(Rejected(err))
       ELSE IF op = "speakWord"
       THEN OpSettle(Returned("webSpeech"))
       ELSE IF op = "startRecording"
       THEN OpSettle(Threw(err))
       ELSE OpTryModel(op, opModel + 1)
    /\ UNCHANGED <<version, hasKey, cache, op, opArg>>
    /\ UNCHANGED nonOpsVars

\* the backoff timer of the operation's callWithRetry fires: next attempt
OpTimerFires ==
    /\ opPc = "waiting"
    /\ OpInvokeFn(op)
    /\ UNCHANGED <<version, hasKey, cache, op, opArg>>
    /\ UNCHANGED nonOpsVars

\* generateIllustration of part_000: the fetch of the placeholder settles
OpFetchSettles(ok) ==
    /\ opPc = "fetch"
    /\ OpSettle(Returned(IF ok THEN "placeholder" ELSE "FALLBACK_IMAGE_BASE64"))
    /\ UNCHANGED <<version, hasKey, cache, op, opArg>>
    /\ UNCHANGED nonOpsVars

\* the caller has taken the result; the next operation may be called
OpReturn ==
    /\ opPc = "done"
    /\ op' = "none"
    /\ opArg' = NoWord
    /\ opPc' = "idle"
    /\ opScript' = <<>>
    /\ opModel' = 0
    /\ backend' = <<>>
    /\ opOutcome' = NoOutcome
    /\ UNCHANGED <<version, hasKey, cache>>
    /\ UNCHANGED nonOpsVars

\* handleSaveApiKey: an API key is saved (ApiKeyModal saves non-empty keys
\* only) and a shown error message is cleared
SaveApiKey ==
    /\ ~hasKey \/ errorMessage # <<>>
    /\ hasKey' = TRUE
    /\ errorMessage' = <<>>
    /\ lastStep' = OtherStep
    /\ UNCHANGED <<version, cache, op, opArg, opPc, opScript, opModel, backend, opOutcome>>
    /\ UNCHANGED <<status, lastAction, presentation, transcript, isAudioLoading,
                   audioState, liveSession, themeText, running, result, intervalLeaked,
                   timerIntervalRef>>
    /\ UNCHANGED <<retryVars, historyVars, codecVars, audioVars, scriptVars, lookupVars>>

NextOps ==
    \/ \E o \in Ops : \E w \in (IF o = "getWordMeaning" THEN Words ELSE {NoWord}) : OpCall(o, w)
    \/ OpMediaResolves
    \/ OpMediaRejects
    \/ \E v \in Responses : OpBackendResolves(v)
    \/ \E err \in BackendErrors : OpBackendRejects(err)
    \/ OpTimerFires
    \/ \E ok \in BOOLEAN : OpFetchSettles(ok)
    \/ OpReturn
    \/ SaveApiKey

SpecOps == Init /\ [][NextOps]_vars

\* ------------------------------------------------ the handlers of the App
\* handleError(err, retryFn)
HandleError_noAction(err, retryFn) ==
    /\ errorMessage' = AppDefaultMessage
    /\ lastAction' = NoAction
    /\ status' = "ERROR"
HandleError(err, retryFn) ==
    LET errStr == ToLowerCase(Stringify(err))
        msg == err.message
    IN  /\ errorMessage' = IF \/ Includes(msg, "429")
                              \/ Includes(errStr, "quota")
                              \/ Includes(errStr, "resource_exhausted")
                           THEN AppBusyMessage
                           ELSE IF msg # <<>> THEN msg ELSE AppDefaultMessage
        /\ lastAction' = retryFn
        /\ status' = "ERROR"

\* handler o, past its early returns, runs up to its first await
HandlerBody(o) ==
    /\ InFlight(running) < MaxInFlight
    /\ running' = [running EXCEPT ![o] = @ + 1]
    /\ status' = CASE o = "handleGenerate" -> "GENERATING"
                   [] o = "handleSubmitEvaluation" -> "EVALUATING"
                   [] OTHER -> status
    /\ isAudioLoading' = IF o = "playTeacherVoice" THEN TRUE ELSE isAudioLoading
    /\ transcript' = IF o = "startRecording" THEN FALSE ELSE transcript
    /\ audioState' = IF o = "startRecording" THEN "idle" ELSE audioState

\* reset()
Reset ==
    /\ themeText' = FALSE
    /\ presentation' = FALSE
    /\ transcript' = FALSE
    /\ errorMessage' = <<>>
    /\ lastAction' = NoAction
    /\ result' = FALSE
    /\ status' = "IDLE"
    /\ audioState' = "idle"
    /\ timerIntervalRef' = "none"
    /\ UNCHANGED intervalLeaked

\* a theme is picked or typed on the start screen
SelectTheme ==
    /\ status = "IDLE"
    /\ ~themeText
    /\ themeText' = TRUE
    /\ lastStep' = OtherStep
    /\ UNCHANGED <<status, errorMessage, lastAction, presentation, transcript, isAudioLoading,
                   audioState, liveSession, running>>
    /\ UNCHANGED <<result, intervalLeaked, timerIntervalRef>>
    /\ UNCHANGED <<version, nonAppVars>>

\* the button of handleGenerate is pressed
ClickGenerate ==
    /\ status = "IDLE"
    /\ themeText
    /\ HandlerBody("handleGenerate")
    /\ errorMessage' = <<>>
    /\ lastStep' = OtherStep
    /\ UNCHANGED <<lastAction, presentation, liveSession, themeText>>
    /\ UNCHANGED <<result, intervalLeaked, timerIntervalRef>>
    /\ UNCHANGED <<version, nonAppVars>>

\* the button of playTeacherVoice is pressed
ClickPlayTeacherVoice ==
    /\ status \in {"READY", "RECORDING", "REVIEWING"}
    /\ presentation
    /\ ~isAudioLoading
    /\ IF audioState = "paused"
       THEN audioState' = "playing" /\ UNCHANGED <<running, status, isAudioLoading, transcript>>
       ELSE IF audioState = "playing"
       THEN audioState' = "paused" /\ UNCHANGED <<running, status, isAudioLoading, transcript>>
       ELSE HandlerBody("playTeacherVoice")
    /\ lastStep' = OtherStep
    /\ UNCHANGED <<errorMessage, lastAction, presentation, liveSession, themeText>>
    /\ UNCHANGED <<result, intervalLeaked, timerIntervalRef>>
    /\ UNCHANGED <<version, nonAppVars>>

\* the button of startRecording is pressed
ClickStartRecording ==
    /\ status \in {"READY", "REVIEWING"}
    /\ presentation
    /\ HandlerBody("startRecording")
    /\ lastStep' = OtherStep
    /\ UNCHANGED <<errorMessage, lastAction, presentation, liveSession, themeText>>
    /\ UNCHANGED <<result, intervalLeaked, timerIntervalRef>>
    /\ UNCHANGED <<version, nonAppVars>>

\* stopRecording
ClickStopRecording ==
    /\ status = "RECORDING"
    /\ presentation
    /\ timerIntervalRef' = "none"
    /\ UNCHANGED <<result, intervalLeaked>>
    /\ liveSession' = FALSE
    /\ status' = "REVIEWING"
    /\ lastStep' = OtherStep
    /\ UNCHANGED <<errorMessage, lastAction, presentation, transcript, isAudioLoading,
                   audioState, themeText, running>>
    /\ UNCHANGED <<version, nonAppVars>>

\* the button of handleSubmitEvaluation is pressed
ClickSubmitEvaluation ==
    /\ status = "REVIEWING"
    /\ presentation
    /\ IF ~transcript
       THEN status' = "READY" /\ UNCHANGED <<running, isAudioLoading, transcript, audioState>>
       ELSE HandlerBody("handleSubmitEvaluation")
    /\ lastStep' = OtherStep
    /\ UNCHANGED <<errorMessage, lastAction, presentation, liveSession, themeText>>
    /\ UNCHANGED <<result, intervalLeaked, timerIntervalRef>>
    /\ UNCHANGED <<version, nonAppVars>>

\* the awaits of handleGenerate resolve
GenerateResolves ==
    /\ running["handleGenerate"] > 0
    /\ running' = [running EXCEPT !["handleGenerate"] = @ - 1]
    /\ presentation' = TRUE
    /\ status' = "READY"
    /\ lastStep' = OtherStep
    /\ UNCHANGED <<errorMessage, lastAction, transcript, isAudioLoading, audioState,
                   liveSession, themeText>>
    /\ UNCHANGED <<result, intervalLeaked, timerIntervalRef>>
    /\ UNCHANGED <<version, nonAppVars>>

\* the await of playTeacherVoice resolves
PlayTeacherVoiceResolves ==
    /\ running["playTeacherVoice"] > 0
    /\ running' = [running EXCEPT !["playTeacherVoice"] = @ - 1]
    /\ audioState' = "playing"
    /\ isAudioLoading' = FALSE
    /\ lastStep' = OtherStep
    /\ UNCHANGED <<status, errorMessage, lastAction, presentation, transcript,
                   liveSession, themeText>>
    /\ UNCHANGED <<result, intervalLeaked, timerIntervalRef>>
    /\ UNCHANGED <<version, nonAppVars>>

\* startRecording: getUserMedia resolves, the live session is requested
MediaResolves ==
    /\ running["startRecording"] > 0
    /\ intervalLeaked' = (intervalLeaked \/ timerIntervalRef = "live")
    /\ timerIntervalRef' = "live"
    /\ UNCHANGED result
    /\ running' = [running EXCEPT !["startRecording"] = @ - 1, !["connect"] = @ + 1]
    /\ status' = "RECORDING"
    /\ lastStep' = OtherStep
    /\ UNCHANGED <<errorMessage, lastAction, presentation, transcript, isAudioLoading,
                   audioState, liveSession, themeText>>
    /\ UNCHANGED <<version, nonAppVars>>

\* startRecording: the live session is open
ConnectResolves ==
    /\ running["connect"] > 0
    /\ running' = [running EXCEPT !["connect"] = @ - 1]
    /\ liveSession' = TRUE
    /\ lastStep' = OtherStep
    /\ UNCHANGED <<status, errorMessage, lastAction, presentation, transcript, isAudioLoading,
                   audioState, themeText>>
    /\ UNCHANGED <<result, intervalLeaked, timerIntervalRef>>
    /\ UNCHANGED <<version, nonAppVars>>

\* the await of handleSubmitEvaluation resolves
SubmitEvaluationResolves ==
    /\ running["handleSubmitEvaluation"] > 0
    /\ running' = [running EXCEPT !["handleSubmitEvaluation"] = @ - 1]
    /\ result' = TRUE
    /\ status' = "RESULT"
    /\ UNCHANGED <<intervalLeaked, timerIntervalRef>>
    /\ lastStep' = OtherStep
    /\ UNCHANGED <<errorMessage, lastAction, presentation, transcript, isAudioLoading,
                   audioState, liveSession, themeText>>
    /\ UNCHANGED <<version, nonAppVars>>

\* await a of a handler rejects with err: the catch block of the handler
HandlerRejects(a, err) ==
    /\ running[a] > 0
    /\ running' = [running EXCEPT ![a] = @ - 1]
    /\ HandleError(err, HandlerOf(a))
    /\ isAudioLoading' = IF a = "playTeacherVoice" THEN FALSE ELSE isAudioLoading
    /\ lastStep' = [kind |-> "fail", op |-> HandlerOf(a)]
    /\ UNCHANGED <<presentation, transcript, audioState, liveSession, themeText>>
    /\ UNCHANGED <<result, intervalLeaked, timerIntervalRef>>
    /\ UNCHANGED <<version, nonAppVars>>

\* onmessage of the live session: a piece of transcript arrives
OnMessage ==
    /\ liveSession
    /\ ~transcript
    /\ transcript' = TRUE
    /\ lastStep' = OtherStep
    /\ UNCHANGED <<status, errorMessage, lastAction, presentation, isAudioLoading,
                   audioState, liveSession, themeText, running>>
    /\ UNCHANGED <<result, intervalLeaked, timerIntervalRef>>
    /\ UNCHANGED <<version, nonAppVars>>

\* the teacher's audio ends, or stopAudio is pressed
AudioStops ==
    /\ audioState # "idle"
    /\ audioState' = "idle"
    /\ lastStep' = OtherStep
    /\ UNCHANGED <<status, errorMessage, lastAction, presentation, transcript, isAudioLoading,
                   liveSession, themeText, running>>
    /\ UNCHANGED <<result, intervalLeaked, timerIntervalRef>>
    /\ UNCHANGED <<version, nonAppVars>>

\* the practice-again button of the result screen: setStatus(AppStatus.READY)
ClickPracticeAgain ==
    /\ status = "RESULT"
    /\ result
    /\ status' = "READY"
    /\ lastStep' = OtherStep
    /\ UNCHANGED <<errorMessage, lastAction, presentation, transcript, isAudioLoading,
                   audioState, liveSession, themeText, running>>
    /\ UNCHANGED <<result, intervalLeaked, timerIntervalRef>>
    /\ UNCHANGED <<version, nonAppVars>>

\* a button of reset is pressed (the header shows one in every status)
ClickReset ==
    /\ Reset
    /\ lastStep' = OtherStep
    /\ UNCHANGED <<isAudioLoading, liveSession, running>>
    /\ UNCHANGED <<version, nonAppVars>>

\* handleRetry: the Retry button of the error screen is pressed
ClickRetry ==
    /\ status = "ERROR"
    /\ IF lastAction # NoAction
       THEN /\ errorMessage' = <<>>
            /\ HandlerBody(lastAction)
            /\ UNCHANGED <<lastAction, presentation, themeText, result, intervalLeaked,
                           timerIntervalRef>>
       ELSE /\ Reset
            /\ UNCHANGED <<isAudioLoading, running>>
    /\ lastStep' = [kind |-> "retry", op |-> lastAction]
    /\ UNCHANGED liveSession
    /\ UNCHANGED <<version, nonAppVars>>

NextApp ==
    \/ SelectTheme
    \/ ClickGenerate
    \/ ClickPlayTeacherVoice
    \/ ClickStartRecording
    \/ ClickStopRecording
    \/ ClickSubmitEvaluation
    \/ GenerateResolves
    \/ PlayTeacherVoiceResolves
    \/ MediaResolves
    \/ ConnectResolves
    \/ SubmitEvaluationResolves
    \/ \E a \in Awaits, err \in AppErrors : HandlerRejects(a, err)
    \/ OnMessage
    \/ AudioStops
    \/ ClickPracticeAgain
    \/ ClickReset
    \/ ClickRetry
    \/ SaveApiKey

\* App.tsx imports the operations from ./services/geminiService
InitApp == version = "geminiService" /\ Init

SpecApp == InitApp /\ [][NextApp]_vars

\* the promise awaited at await a settles
AwaitSettles(a) ==
    \/ a = "handleGenerate" /\ GenerateResolves
    \/ a = "playTeacherVoice" /\ PlayTeacherVoiceResolves
    \/ a = "startRecording" /\ MediaResolves
    \/ a = "connect" /\ ConnectResolves
    \/ a = "handleSubmitEvaluation" /\ SubmitEvaluationResolves
    \/ \E err \in AppErrors : HandlerRejects(a, err)

\* every promise a handler awaits settles in the end; the learner may stop clicking
FairSpecApp == SpecApp /\ \A a \in Awaits : WF_vars(AwaitSettles(a))

\* ------------------------------------------- the lesson history service
Parses(st) == st.kind = "records"

\* diffDays <= EXPIRY_DAYS
Unexpired(r, t) == t - TimeOf(r.date) <= EXPIRY_DAYS * TicksPerDay

ValidRecords(recs, t) == SelectSeq(recs, LAMBDA r : Unexpired(r, t))

\* getLessonHistory() at time t on store st: what it returns and the store after
GetLessonHistory_noWriteBack(st, t) ==
    IF ~Parses(st)
    THEN [ret |-> <<>>, store |-> st]
    ELSE [ret |-> ValidRecords(st.records, t), store |-> st]
GetLessonHistory(st, t) ==
    IF ~Parses(st)
    THEN [ret |-> <<>>, store |-> st]
    ELSE LET validRecords == ValidRecords(st.records, t)
         IN  [ret |-> validRecords,
              store |-> IF Len(validRecords) # Len(st.records) THEN Stored(validRecords) ELSE st]

\* saveLessonRecord
SaveLessonRecord_first(st, t, rnd, score) ==
    LET record == NewRecord(t, rnd, score)
    IN  [ret |-> record, store |-> Stored(<<record>> \o GetLessonHistory(st, t).ret)]
SaveLessonRecord(st, t, rnd, score) ==
    LET record == NewRecord(t, rnd, score)
    IN  [ret |-> record, store |-> Stored(Append(GetLessonHistory(st, t).ret, record))]

\* deleteLessonRecord(id)
DeleteLessonRecord(st, t, id) ==
    [ret |-> <<>>,
     store |-> Stored(SelectSeq(GetLessonHistory(st, t).ret, LAMBDA l : l.id # id))]

\* clearHistory
ClearHistory(st, t) == [ret |-> <<>>, store |-> Absent]

\* Array.prototype.slice(start)
Slice(s, start) ==
    LET from == IF start < 0
                THEN (IF Len(s) + start > 0 THEN Len(s) + start ELSE 0)
                ELSE (IF start < Len(s) THEN start ELSE Len(s))
    IN  SubSeq(s, from + 1, Len(s))

\* Array.prototype.reverse
Reverse(s) == [k \in 1..Len(s) |-> s[Len(s) + 1 - k]]

\* getRecentLessons(limit)
GetRecentLessons(st, t, limit) ==
    LET h == GetLessonHistory(st, t)
    IN  [ret |-> Reverse(Slice(h.ret, 0 - limit)), store |-> h.store]

RECURSIVE SumScores(_)
SumScores(lessons) ==
    IF lessons = <<>> THEN 0 ELSE Head(lessons).score + SumScores(Tail(lessons))

\* Math.round(x) for x = n / d >= 0
MathRound(n, d) == (2 * n + d) \div (2 * d)

\* avgScore, as a number of tenths
AvgScore_sum(lessons) ==
    IF Len(lessons) > 0 THEN SumScores(lessons) ELSE 0
AvgScore(lessons) ==
    IF Len(lessons) > 0 THEN MathRound(SumScores(lessons), Len(lessons)) ELSE 0

\* getLessonsGroupedByDay
GetLessonsGroupedByDay(st, t) ==
    LET h == GetLessonHistory(st, t)
        entry(k) ==
            LET dateKey == DateKey(t) - (GroupedDays - k)
                lessons == SelectSeq(h.ret, LAMBDA lesson : DateKey(lesson.date) = dateKey)
            IN  [date |-> dateKey, lessons |-> lessons, avgScore |-> AvgScore(lessons)]
    IN  [ret |-> [k \in 1..GroupedDays |-> entry(k)], store |-> h.store]

\* getWeeklySkillAverages: of its result, the number of lessons counted
GetWeeklySkillAverages(st, t) ==
    LET h == GetLessonHistory(st, t)
        count == Len(h.ret)
    IN  [ret |-> IF Len(h.ret) = 0 THEN [totalLessons |-> 0] ELSE [totalLessons |-> count],
         store |-> h.store]

\* the loop of getDailyStreak at index k with the streak counted so far
RECURSIVE StreakLoop(_, _, _)
StreakLoop(grouped, k, streak) ==
    IF k < 1 THEN streak
    ELSE IF Len(grouped[k].lessons) > 0 THEN StreakLoop(grouped, k - 1, streak + 1)
    ELSE IF k = Len(grouped) THEN StreakLoop(grouped, k - 1, streak)
    ELSE streak

\* getDailyStreak
GetDailyStreak_strict(st, t) ==
    LET g == GetLessonsGroupedByDay(st, t)
    IN  [ret |-> IF Len(g.ret[Len(g.ret)].lessons) = 0 THEN 0
                 ELSE StreakLoop(g.ret, Len(g.ret), 0),
         store |-> g.store]
GetDailyStreak(st, t) ==
    LET g == GetLessonsGroupedByDay(st, t)
    IN  [ret |-> StreakLoop(g.ret, Len(g.ret), 0), store |-> g.store]

\* the records earlier sessions saved on the days of p, from day d on, oldest first
RECURSIVE EarlierRecords(_, _)
EarlierRecords(p, d) ==
    IF d > EXPIRY_DAYS THEN <<>>
    ELSE (IF d \in p
          THEN <<NewRecord(d * TicksPerDay + 1, 1, IF d % 2 = 0 THEN 75 ELSE 80)>>
          ELSE <<>>) \o EarlierRecords(p, d + 1)

\* what the store may hold when a session starts
InitialStores ==
    {Absent, Corrupt}
    \cup {Stored(EarlierRecords(a..b, 0)) : a \in EarlierDays, b \in EarlierDays}
    \cup {Stored(EarlierRecords(EarlierDays \ {d}, 0)) : d \in EarlierDays}

InitHistory ==
    /\ version = "geminiService"
    /\ RetryInit
    /\ OpsInit
    /\ AppInit
    /\ store \in InitialStores
    /\ now = StartNow
    /\ changes = 0
    /\ histOp = NoHistOp
    /\ histRet = <<>>
    /\ CodecInit
    /\ AudioInit
    /\ ScriptInit
    /\ LookupInit

\* an operation of the service runs: its result, the store it leaves
HistCall(name, arg, returned) ==
    /\ histOp' = [name |-> name, arg |-> arg]
    /\ histRet' = returned.ret
    /\ store' = returned.store
    /\ UNCHANGED now
    /\ UNCHANGED <<version, nonHistoryVars>>

\* time passes
Tick ==
    /\ now < StartNow + MaxTicks
    /\ now' = now + 1
    /\ histOp' = NoHistOp
    /\ histRet' = <<>>
    /\ UNCHANGED <<store, changes>>
    /\ UNCHANGED <<version, nonHistoryVars>>

CallGetLessonHistory ==
    /\ HistCall("getLessonHistory", 0, GetLessonHistory(store, now))
    /\ UNCHANGED changes

CallSaveLessonRecord(rnd, score) ==
    /\ changes < MaxChanges
    /\ changes' = changes + 1
    /\ HistCall("saveLessonRecord", 0, SaveLessonRecord(store, now, rnd, score))

\* the ids a caller may pass: those of the stored records and one of no record
KnownIds == {store.records[k].id : k \in 1..Len(store.records)} \cup {<<0, 0>>}

CallDeleteLessonRecord(id) ==
    /\ changes < MaxChanges
    /\ changes' = changes + 1
    /\ HistCall("deleteLessonRecord", id, DeleteLessonRecord(store, now, id))

CallClearHistory ==
    /\ changes < MaxChanges
    /\ changes' = changes + 1
    /\ HistCall("clearHistory", 0, ClearHistory(store, now))

CallGetRecentLessons(limit) ==
    /\ HistCall("getRecentLessons", limit, GetRecentLessons(store, now, limit))
    /\ UNCHANGED changes

CallGetLessonsGroupedByDay ==
    /\ HistCall("getLessonsGroupedByDay", 0, GetLessonsGroupedByDay(store, now))
    /\ UNCHANGED changes

CallGetDailyStreak ==
    /\ HistCall("getDailyStreak", 0, GetDailyStreak(store, now))
    /\ UNCHANGED changes

CallGetWeeklySkillAverages ==
    /\ HistCall("getWeeklySkillAverages", 0, GetWeeklySkillAverages(store, now))
    /\ UNCHANGED changes

NextHistory ==
    \/ Tick
    \/ CallGetLessonHistory
    \/ \E l \in SavedLessons : CallSaveLessonRecord(l.rnd, l.score)
    \/ \E id \in KnownIds : CallDeleteLessonRecord(id)
    \/ CallClearHistory
    \/ \E limit \in (0..MaxLimit) \cup {DefaultLimit} : CallGetRecentLessons(limit)
    \/ CallGetLessonsGroupedByDay
    \/ CallGetDailyStreak
    \/ CallGetWeeklySkillAverages

SpecHistory == InitHistory /\ [][NextHistory]_vars

\* ------------------------------------------------------------ encode, decode
\* the base64 alphabet, and the padding character
Alphabet ==
    <<"A", "B", "C", "D", "E", "F", "G", "H", "I", "J", "K", "L", "M", "N", "O", "P",
      "Q", "R", "S", "T", "U", "V", "W", "X", "Y", "Z", "a", "b", "c", "d", "e", "f",
      "g", "h", "i", "j", "k", "l", "m", "n", "o", "p", "q", "r", "s", "t", "u", "v",
      "w", "x", "y", "z", "0", "1", "2", "3", "4", "5", "6", "7", "8", "9", "+", "/">>
Pad == "="

\* the character of a 6-bit value, and the 6-bit value of a character
Char(v) == Alphabet[v + 1]
Sextet(c) == (CHOOSE k \in 1..Len(Alphabet) : Alphabet[k] = c) - 1

\* String.fromCharCode(byte) and charCodeAt: a binary string is the sequence
\* of its char codes
FromCharCode(b) == b % 65536
CharCodeAt(str, k) == str[k]

\* btoa on a binary string
RECURSIVE Btoa(_)
Btoa(str) ==
    IF Len(str) = 0 THEN <<>>
    ELSE IF Len(str) = 1
    THEN <<Char(str[1] \div 4), Char((str[1] % 4) * 16), Pad, Pad>>
    ELSE IF Len(str) = 2
    THEN <<Char(str[1] \div 4), Char((str[1] % 4) * 16 + str[2] \div 16),
           Char((str[2] % 16) * 4), Pad>>
    ELSE <<Char(str[1] \div 4), Char((str[1] % 4) * 16 + str[2] \div 16),
           Char((str[2] % 16) * 4 + str[3] \div 64), Char(str[3] % 64)>>
         \o Btoa(SubSeq(str, 4, Len(str)))

\* atob on a text of well-formed base64
RECURSIVE Atob(_)
Atob(b64) ==
    IF Len(b64) < 4 THEN <<>>
    ELSE LET v1 == Sextet(b64[1])
             v2 == Sextet(b64[2])
         IN  IF b64[3] = Pad
             THEN <<v1 * 4 + v2 \div 16>>
             ELSE IF b64[4] = Pad
             THEN <<v1 * 4 + v2 \div 16, (v2 % 16) * 16 + Sextet(b64[3]) \div 4>>
             ELSE <<v1 * 4 + v2 \div 16, (v2 % 16) * 16 + Sextet(b64[3]) \div 4,
                    (Sextet(b64[3]) % 4) * 64 + Sextet(b64[4])>>
                  \o Atob(SubSeq(b64, 5, Len(b64)))

\* encode(bytes)
encode_skipFirst(bs) == Btoa([k \in 1..(Len(bs) - 1) |-> FromCharCode(bs[k + 1])])
encode(bs) == Btoa([k \in 1..Len(bs) |-> FromCharCode(bs[k])])

\* decode(base64): the Uint8Array of the char codes
decode(b64) ==
    LET binaryString == Atob(b64)
    IN  [k \in 1..Len(binaryString) |-> CharCodeAt(binaryString, k) % 256]

\* the byte sequences of length n over ByteValues
ByteSeqs(n) == UNION {[1..m -> ByteValues] : m \in 0..n}

InitCodec ==
    /\ version = "geminiService"
    /\ RetryInit
    /\ OpsInit
    /\ AppInit
    /\ HistoryInit
    /\ AudioInit
    /\ ScriptInit
    /\ LookupInit
    /\ bytes \in ByteSeqs(MaxBytes)
    /\ base64 = <<>>
    /\ decoded = <<>>
    /\ codecPc = "input"

CallEncode ==
    /\ codecPc = "input"
    /\ base64' = encode(bytes)
    /\ codecPc' = "encoded"
    /\ UNCHANGED <<bytes, decoded>>
    /\ UNCHANGED <<version, nonCodecVars>>

CallDecode ==
    /\ codecPc = "encoded"
    /\ decoded' = decode(base64)
    /\ codecPc' = "decoded"
    /\ UNCHANGED <<bytes, base64>>
    /\ UNCHANGED <<version, nonCodecVars>>

NextCodec ==
    \/ CallEncode
    \/ CallDecode

SpecCodec == InitCodec /\ [][NextCodec]_vars

\* ---------------------------------------------------------- decodeAudioData
\* a signed 16-bit sample as its two bytes, low byte first, and back
LowByte(sample) == ((sample + 65536) % 65536) % 256
HighByte(sample) == ((sample + 65536) % 65536) \div 256
ToInt16(lo, hi) == IF lo + 256 * hi >= 32768 THEN lo + 256 * hi - 65536 ELSE lo + 256 * hi

\* new Int16Array(data.buffer): a RangeError when the byte length is odd
Int16Array_truncating(data) ==
    [kind |-> "samples",
     samples |-> [k \in 1..(Len(data) \div 2) |-> ToInt16(data[2 * k - 1], data[2 * k])]]
Int16Array(data) ==
    IF Len(data) % 2 # 0
    THEN [kind |-> "RangeError", samples |-> <<>>]
    ELSE [kind |-> "samples",
          samples |-> [k \in 1..(Len(data) \div 2) |-> ToInt16(data[2 * k - 1], data[2 * k])]]

\* the length argument of createBuffer is an unsigned long: the quotient
\* frameCount = dataInt16.length / numChannels loses its fraction
ToUnsignedLong(num, den) == num \div den

\* the index of dataInt16 read for a frame of a channel (both from 0)
SampleIndex_mono(frame, numCh, channel) == frame
SampleIndex(frame, numCh, channel) == frame * numCh + channel

\* dataInt16[...] / 32768.0 stored in a Float32Array: the quotient of a
\* 16-bit integer by 2^15 is a float, so it is stored exactly
Normalize(sample) == [num |-> sample, den |-> 32768]
\* what createBuffer fills a channel with
Silence == [num |-> 0, den |-> 32768]

\* decodeAudioData(data, ctx, sampleRate, numChannels): the loops run for
\* every frame < frameCount, a write past the end of channelData is dropped
DecodeAudioData(data, numCh) ==
    LET dataInt16 == Int16Array(data)
        total == Len(dataInt16.samples)
        length == ToUnsignedLong(total, numCh)
        looped == {frame \in 0..total : frame * numCh < total}
    IN  IF dataInt16.kind = "RangeError"
        THEN [kind |-> "error", name |-> "RangeError", channels |-> <<>>]
        ELSE IF length = 0
        THEN [kind |-> "error", name |-> "NotSupportedError", channels |-> <<>>]
        ELSE [kind |-> "buffer", name |-> "AudioBuffer",
              channels |->
                [c \in 1..numCh |->
                    [f \in 1..length |->
                        IF (f - 1) \in looped
                        THEN Normalize(dataInt16.samples[SampleIndex(f - 1, numCh, c - 1) + 1])
                        ELSE Silence]]]

\* the sample sequences tried: a ramp of distinct values, and the extremes
Waves == {"ramp", "extremes"}
Extremes == <<-32768, 32767, 0, -1>>
WaveSample(wave, k) ==
    IF wave = "ramp" THEN 100 * k - 300 ELSE Extremes[((k - 1) % Len(Extremes)) + 1]

\* the bytes of n samples of a wave, with `extra` bytes of a broken sample after them
PcmBytes(wave, n, extra) ==
    [k \in 1..(2 * n + extra) |->
        IF k > 2 * n THEN 7
        ELSE IF k % 2 = 1 THEN LowByte(WaveSample(wave, (k + 1) \div 2))
        ELSE HighByte(WaveSample(wave, k \div 2))]

InitAudio ==
    /\ version \in Versions
    /\ RetryInit
    /\ OpsInit
    /\ AppInit
    /\ HistoryInit
    /\ CodecInit
    /\ ScriptInit
    /\ LookupInit
    /\ \E wave \in Waves, n \in 0..MaxSamples, extra \in {0, 1} :
            pcm = PcmBytes(wave, n, extra)
    /\ numChannels \in 1..MaxChannels
    /\ audioOut = NoAudio
    /\ audioPc = "input"

CallDecodeAudioData ==
    /\ audioPc = "input"
    /\ audioOut' = DecodeAudioData(pcm, numChannels)
    /\ audioPc' = "done"
    /\ UNCHANGED <<pcm, numChannels>>
    /\ UNCHANGED <<version, nonAudioVars>>

NextAudio == CallDecodeAudioData

SpecAudio == InitAudio /\ [][NextAudio]_vars

\* ------------------------------------------- cleanPunctuation, handleGenerate
\* what \s matches and trim() strips
IsWhiteSpace(ch) == ch \in {Space, Tab}

\* text.replace(/\.+/g, '.')
RECURSIVE CollapsePeriods(_)
CollapsePeriods(text) ==
    IF Len(text) < 2 THEN text
    ELSE IF text[1] = Period /\ text[2] = Period
    THEN CollapsePeriods(Tail(text))
    ELSE <<text[1]>> \o CollapsePeriods(Tail(text))

\* text.replace(/\s+/g, ' ')
RECURSIVE CollapseWhiteSpace(_)
CollapseWhiteSpace(text) ==
    IF text = <<>> THEN <<>>
    ELSE IF ~IsWhiteSpace(text[1]) THEN <<text[1]>> \o CollapseWhiteSpace(Tail(text))
    ELSE IF Len(text) >= 2 /\ IsWhiteSpace(text[2]) THEN CollapseWhiteSpace(Tail(text))
    ELSE <<Space>> \o CollapseWhiteSpace(Tail(text))

\* text.trim()
RECURSIVE TrimStart(_)
TrimStart(text) ==
    IF text # <<>> /\ IsWhiteSpace(text[1]) THEN TrimStart(Tail(text)) ELSE text
RECURSIVE TrimEnd(_)
TrimEnd(text) ==
    IF text # <<>> /\ IsWhiteSpace(text[Len(text)])
    THEN TrimEnd(SubSeq(text, 1, Len(text) - 1))
    ELSE text
Trim(text) == TrimEnd(TrimStart(text))

cleanPunctuation_noPeriods(text) == Trim(CollapseWhiteSpace(text))
cleanPunctuation(text) == Trim(CollapseWhiteSpace(CollapsePeriods(text)))

\* text.replace('[Name]', name): the first [Name] only
RECURSIVE ReplaceName(_, _)
ReplaceName(text, name) ==
    IF text = <<>> THEN <<>>
    ELSE IF text[1] = NameToken THEN name \o Tail(text)
    ELSE <<text[1]>> \o ReplaceName(Tail(text), name)

\* the texts of at most n characters
Texts(n) == UNION {[1..m -> ScriptChars] : m \in 0..n}

\* the names typed in the header
ChildNames == {<<"L", "e", "o">>, <<Period, Period, Space, Space>>}

\* the parts of a script
Slots == {"intro", "points", "conclusion"}
\* a script whose part `slot` holds text (for points: as the second point)
ScriptWith(slot, text) ==
    [intro |-> IF slot = "intro" THEN text ELSE <<"a", Space, NameToken, Period>>,
     points |-> IF slot = "points" THEN <<<<"a", Period>>, text>> ELSE <<<<"a", Period>>>>,
     conclusion |-> IF slot = "conclusion" THEN text ELSE <<"a", Period>>]

InitScript ==
    /\ version = "geminiService"
    /\ RetryInit
    /\ OpsInit
    /\ AppInit
    /\ HistoryInit
    /\ CodecInit
    /\ AudioInit
    /\ LookupInit
    /\ \E slot \in Slots, text \in Texts(MaxTextLen) : scriptData = ScriptWith(slot, text)
    /\ childName \in ChildNames
    /\ presented = NoScript
    /\ scriptPc = "received"

\* handleGenerate, once generatePresentationScript has resolved
StorePresentation ==
    /\ scriptPc = "received"
    /\ presented' =
          [intro |-> cleanPunctuation(ReplaceName(scriptData.intro, childName)),
           points |-> [k \in 1..Len(scriptData.points) |-> cleanPunctuation(scriptData.points[k])],
           conclusion |-> cleanPunctuation(scriptData.conclusion)]
    /\ scriptPc' = "stored"
    /\ UNCHANGED <<scriptData, childName>>
    /\ UNCHANGED <<version, nonScriptVars>>

NextScript == StorePresentation

SpecScript == InitScript /\ [][NextScript]_vars

\* ------------------------------------------------------------ getWordMeaning
\* the values the lookups of key k that have returned so far returned
ReturnedFor(k) ==
    {lookups[m].outcome.value :
        m \in {n \in Lookups : /\ lookups[n].outcome.kind = "returned"
                                /\ CleanWord(lookups[n].word) = k}}

\* an attempt of the callback of lookup rec has ended with r: callWithRetry
\* returns, throws, or starts a backoff wait (script: the attempts of a call
\* that has not settled)
LookupAttemptEnds(rec, r) ==
    LET script == Append(rec.script, r)
        run == RunAlone(version, DefaultMaxRetries, script, 0, InitialDelay, NoError)
    IN  IF run.outcome.kind = "pending"
        THEN [rec EXCEPT !.script = script, !.pc = "waiting"]
        ELSE [rec EXCEPT !.script = <<>>, !.pc = "done", !.outcome = run.outcome]

\* the callback given to callWithRetry runs up to its first await
LookupInvokeFn(rec) ==
    IF ~hasKey
    THEN LookupAttemptEnds(rec, Rejected(ErrMissingKey))
    ELSE [rec EXCEPT !.pc = "backend", !.called = TRUE]

\* getWordMeaning(w) is called: a cached value is returned at once
LookupCall(l, w) ==
    /\ lookups[l].pc = "idle"
    /\ \A m \in 1..(l - 1) : lookups[m].pc # "idle"
    /\ LET cleanWord == CleanWord(w)
           rec == [NoLookup EXCEPT !.word = w, !.known = ReturnedFor(cleanWord)]
       IN  lookups' = [lookups EXCEPT ![l] =
                          IF cache[cleanWord] # NoValue
                          THEN [rec EXCEPT !.pc = "done", !.outcome = Returned(cache[cleanWord])]
                          ELSE LookupInvokeFn(rec)]
    /\ UNCHANGED cache
    /\ UNCHANGED <<version, nonLookupVars>>

\* the backend call of lookup l resolves with v: the result is cached
LookupBackendResolves(l, v) ==
    /\ lookups[l].pc = "backend"
    /\ cache' = [cache EXCEPT ![CleanWord(lookups[l].word)] = v]
    /\ lookups' = [lookups EXCEPT ![l] = LookupAttemptEnds(@, Resolved(v))]
    /\ UNCHANGED <<version, nonLookupVars>>

\* the backend call of lookup l rejects with err
LookupBackendRejects(l, err) ==
    /\ lookups[l].pc = "backend"
    /\ lookups' = [lookups EXCEPT ![l] = LookupAttemptEnds(@, Rejected(err))]
    /\ UNCHANGED cache
    /\ UNCHANGED <<version, nonLookupVars>>

\* the backoff timer of lookup l fires: next attempt
LookupTimerFires(l) ==
    /\ lookups[l].pc = "waiting"
    /\ lookups' = [lookups EXCEPT ![l] = LookupInvokeFn(@)]
    /\ UNCHANGED cache
    /\ UNCHANGED <<version, nonLookupVars>>

NextLookup ==
    \/ \E l \in Lookups, w \in Words : LookupCall(l, w)
    \/ \E l \in Lookups, v \in Responses : LookupBackendResolves(l, v)
    \/ \E l \in Lookups, err \in BackendErrors : LookupBackendRejects(l, err)
    \/ \E l \in Lookups : LookupTimerFires(l)
    \/ SaveApiKey

SpecLookup == Init /\ [][NextLookup]_vars

\* ------------------------------------------------------------------ claims
\* the markers of a rate-limited failure
Markers == {"429", "quota", "resource_exhausted", "rate_limit"}

\* Transient-RateLimited as the data model defines it: status 429, or a marker
\* in the message text or in the serialized form, in any letter case
SpecTransient(err) ==
    \/ err.status = 429
    \/ \E w \in Markers : Includes(ToLowerCase(err.message), w)
    \/ \E w \in Markers : Includes(ToLowerCase(Stringify(err)), w)

\* the error is the ServerBusy error
IsServerBusy(err) == err.message # <<>> /\ err.message[1] = "MAY CHU BAN:"

\* d is exactly ms milliseconds
DelayIs(d, ms) == d.num = ms * d.den

\* the last settled attempt of call c
LastAttempt(c) == history[c][Len(history[c])]

\* every settled attempt of call c failed with a Transient-RateLimited error
AllTransient(c) ==
    \A k \in 1..Len(history[c]) : ~history[c][k].ok /\ SpecTransient(history[c][k].error)

\* C1: for maxRetries >= 1, a call whose every attempt failed with a
\* Transient-RateLimited error up to the exhaustion of its budget raises the
\* ServerBusy error, whatever the message of the last failure
C1_ExhaustionRaisesServerBusy ==
    \A c \in Calls :
        (/\ pc[c] = "done"
         /\ maxRetries[c] >= 1
         /\ Len(history[c]) = maxRetries[c]
         /\ AllTransient(c))
        => (outcome[c].kind = "threw" /\ IsServerBusy(outcome[c].error))

\* C2: for maxRetries <= 1 (zero and negative included) the operation is invoked
\* exactly once, and a failure is raised without any backoff wait
C2_BudgetAtMostOneInvokesOnce ==
    \A c \in Calls :
        (pc[c] = "done" /\ maxRetries[c] <= 1)
        => (calls[c] = 1 /\ waits[c] = <<>>)

\* C3: a failure with status 429 or with a marker in its message text or its
\* serialized form, in any letter case, is classified Transient-RateLimited, and
\* is retried while attempts remain
C3_MarkersAreTransient ==
    \A c \in Calls : \A k \in 1..Len(history[c]) :
        (~history[c][k].ok /\ SpecTransient(history[c][k].error))
        => (/\ IsQuotaError(version, history[c][k].error)
            /\ (k = Len(history[c]) /\ k < maxRetries[c]) => pc[c] # "done")

\* C4: once an attempt, the first or a later one, has failed with an error
\* classified Permanent, the call has raised: nothing is in flight, no wait
\* follows that failure, and the operation was invoked once per settled attempt
C4_PermanentAbortsAtOnce ==
    \A c \in Calls :
        (/\ history[c] # <<>>
         /\ ~LastAttempt(c).ok
         /\ ~IsQuotaError(version, LastAttempt(c).error))
        => (/\ pc[c] = "done"
            /\ outcome[c].kind = "threw"
            /\ inflight[c] = 0
            /\ timers[c] = 0
            /\ calls[c] = Len(history[c])
            /\ Len(waits[c]) = Len(history[c]) - 1)

C4_Witness ==
    \E c \in Calls :
        /\ Len(history[c]) >= 2
        /\ Len(history[c]) < maxRetries[c]
        /\ ~LastAttempt(c).ok
        /\ ~IsQuotaError(version, LastAttempt(c).error)
        /\ pc[c] = "done"

\* C5: with maxRetries = 4, when attempts 1, 2 and 3 failed transiently and
\* attempt 4 succeeded with v, the call has returned v after exactly 4
\* invocations and exactly 3 waits of 1500, 3750 and 9375 ms
C5_ThreeFailuresThenSuccess ==
    \A c \in Calls :
        (/\ maxRetries[c] = 4
         /\ Len(history[c]) = 4
         /\ \A k \in 1..3 : ~history[c][k].ok /\ SpecTransient(history[c][k].error)
         /\ history[c][4].ok)
        => (/\ pc[c] = "done"
            /\ outcome[c] = Returned(history[c][4].value)
            /\ calls[c] = 4
            /\ timers[c] = 0
            /\ Len(waits[c]) = 3
            /\ DelayIs(waits[c][1], 1500)
            /\ DelayIs(waits[c][2], 3750)
            /\ DelayIs(waits[c][3], 9375)
            /\ \A k \in 1..2 : waits[c][k + 1].num * 2 * waits[c][k].den
                                = waits[c][k].num * 5 * waits[c][k + 1].den)

C5_Witness ==
    \E c \in Calls :
        /\ maxRetries[c] = 4
        /\ Len(history[c]) = 4
        /\ \A k \in 1..3 : ~history[c][k].ok /\ SpecTransient(history[c][k].error)
        /\ history[c][4].ok
        /\ outcome[c].kind = "returned"

\* C6: for maxRetries >= 1, when every attempt failed transiently the operation
\* was invoked exactly maxRetries times with exactly maxRetries - 1 waits, none
\* after the final failure; and the operation is never invoked more than
\* maxRetries times
C6_ExactlyMaxRetriesAttempts ==
    \A c \in Calls :
        /\ (pc[c] = "done" /\ maxRetries[c] >= 1 /\ AllTransient(c))
           => (/\ calls[c] = maxRetries[c]
               /\ Len(waits[c]) = maxRetries[c] - 1
               /\ timers[c] = 0)
        /\ (pc[c] # "idle" /\ maxRetries[c] >= 1) => calls[c] <= maxRetries[c]

\* C7: when the call aborts on a Permanent failure, the error raised carries the
\* failure's message when it has one and a generic message when it has none
C7_PermanentErrorCarriesMessage ==
    \A c \in Calls :
        (/\ pc[c] = "done"
         /\ history[c] # <<>>
         /\ ~LastAttempt(c).ok
         /\ ~IsQuotaError(version, LastAttempt(c).error))
        => (/\ outcome[c].kind = "threw"
            /\ LastAttempt(c).error.message # <<>>
               => outcome[c].error.message = LastAttempt(c).error.message
            /\ LastAttempt(c).error.message = <<>>
               => outcome[c].error.message # <<>>)

\* C8: attempts of one call are strictly sequential: at most one invocation is
\* in flight; while attempt N+1 is in flight the N earlier attempts have all
\* failed and been classified transient and their N waits have all elapsed;
\* while a wait is pending no attempt is in flight
C8_AttemptsStrictlySequential ==
    \A c \in Calls :
        /\ inflight[c] <= 1
        /\ timers[c] <= 1
        /\ inflight[c] = 1
           => (/\ timers[c] = 0
               /\ Len(history[c]) = calls[c] - 1
               /\ Len(waits[c]) = calls[c] - 1
               /\ \A k \in 1..Len(history[c]) :
                    ~history[c][k].ok /\ IsQuotaError(version, history[c][k].error))
        /\ timers[c] = 1
           => (/\ inflight[c] = 0
               /\ Len(history[c]) = calls[c]
               /\ Len(waits[c]) = calls[c])

C8_Witness ==
    \E c \in Calls : inflight[c] = 1 /\ calls[c] >= 3 /\ Len(waits[c]) >= 2

\* some step of call c is enabled
CanStep(c) ==
    ENABLED (\/ \E m \in MaxRetriesChoices : Start(c, m)
             \/ \E v \in Values : FnResolves(c, v)
             \/ \E err \in Errors : FnRejects(c, err)
             \/ TimerFires(c))

\* C9: two concurrent calls do not interfere: under every interleaving each
\* call's attempt count, sequence of waits and outcome are those of the call run
\* alone on its own attempt results, and while one call is suspended in its
\* backoff wait the other call can still take a step
C9_ConcurrentCallsDoNotInterfere ==
    \A c \in Calls :
        /\ pc[c] # "idle"
           => LET alone == RunAlone(version, maxRetries[c], history[c], 0, InitialDelay, NoError)
              IN  /\ waits[c] = alone.waits
                  /\ outcome[c] = alone.outcome
                  /\ calls[c] = Len(history[c]) + inflight[c]
        /\ \A d \in Calls \ {c} :
              (pc[c] = "waiting" /\ pc[d] # "done") => CanStep(d)

C9_Witness ==
    \E c \in Calls : \E d \in Calls \ {c} :
        /\ pc[c] = "waiting" /\ Len(waits[c]) = 2
        /\ pc[d] = "waiting" /\ Len(waits[d]) = 1
        /\ maxRetries[c] # maxRetries[d]

\* the call has ended in success
EndedInSuccess(c) ==
    /\ pc[c] = "done" /\ outcome[c].kind = "returned"
    /\ history[c] # <<>> /\ LastAttempt(c).ok

\* the call has ended in a permanent-error abort
EndedInPermanentAbort(c) ==
    /\ pc[c] = "done" /\ outcome[c].kind = "threw"
    /\ history[c] # <<>> /\ ~LastAttempt(c).ok
    /\ ~IsQuotaError(version, LastAttempt(c).error)

\* the call has ended in retry exhaustion
EndedInExhaustion(c) ==
    /\ pc[c] = "done" /\ outcome[c].kind = "threw"
    /\ Len(history[c]) >= maxRetries[c]
    /\ history[c] # <<>> => (~LastAttempt(c).ok /\ IsQuotaError(version, LastAttempt(c).error))

\* the call has ended in exactly one of the three ways
Ended(c) ==
    /\ EndedInSuccess(c) \/ EndedInPermanentAbort(c) \/ EndedInExhaustion(c)
    /\ ~(EndedInSuccess(c) /\ EndedInPermanentAbort(c))
    /\ ~(EndedInSuccess(c) /\ EndedInExhaustion(c))
    /\ ~(EndedInPermanentAbort(c) /\ EndedInExhaustion(c))

\* C10: when every invocation settles and every timer fires, every call that was
\* made eventually ends in exactly one of success, permanent-error abort or
\* retry exhaustion
C10_CallTerminates ==
    \A c \in Calls : (pc[c] # "idle") ~> Ended(c)

C10_Witness ==
    \E c \in Calls :
        /\ EndedInExhaustion(c)
        /\ Len(history[c]) >= 3
        /\ Len(waits[c]) = Len(history[c]) - 1

\* C11: once an attempt has succeeded with value v the call has returned exactly
\* v: the call is done, nothing is in flight, no timer is pending, and no
\* invocation or wait follows the successful attempt
C11_SuccessReturnsValueUnchanged ==
    \A c \in Calls :
        (history[c] # <<>> /\ LastAttempt(c).ok)
        => (/\ pc[c] = "done"
            /\ outcome[c].kind = "returned"
            /\ outcome[c].value = LastAttempt(c).value
            /\ inflight[c] = 0
            /\ timers[c] = 0
            /\ calls[c] = Len(history[c])
            /\ Len(waits[c]) = Len(history[c]) - 1)

C11_Witness ==
    \E c \in Calls :
        /\ Len(history[c]) >= 2
        /\ LastAttempt(c).ok
        /\ LastAttempt(c).value = "v2"
        /\ outcome[c].kind = "returned"
        /\ Len(history[c]) < maxRetries[c]

\* C12: while no API key is configured no backend call is issued, and every AI
\* operation that has settled (startRecording's microphone request apart) has
\* failed with the missing-credential error
C12_NoCredentialFailsBeforeBackend ==
    ~hasKey
    => (/\ backend = <<>>
        /\ (opPc = "done" /\ op # "startRecording") => opOutcome = Threw(ErrMissingKey))

\* C13: every backend call is issued inside callWithRetry, and no operation
\* goes on to a further backend call (a retry or another model) outside it
C13_BackendCallsOnlyInsideRetry ==
    /\ \A k \in 1..Len(backend) : backend[k].inRetry
    /\ opModel <= 1

\* C14: a step in which handleGenerate, playTeacherVoice, startRecording or
\* handleSubmitEvaluation fails leaves the App in ERROR with a message set and
\* lastAction recording that operation; pressing Retry while an operation is
\* recorded re-invokes exactly that operation and does not reset, and resets
\* only while none is recorded
C14_FailureRecordsOperationAndRetryReinvokes ==
    [][/\ lastStep'.kind = "fail"
          => (/\ status' = "ERROR"
              /\ errorMessage' # <<>>
              /\ lastStep'.op \in Handlers
              /\ lastAction' = lastStep'.op)
       /\ lastStep'.kind = "retry"
          => IF lastAction # NoAction
             THEN /\ running' = [running EXCEPT ![lastAction] = @ + 1]
                  /\ lastAction' = lastAction
                  /\ presentation' = presentation
                  /\ status' # "IDLE"
             ELSE /\ status' = "IDLE"
                  /\ running' = running]_vars

C14_Witness ==
    /\ lastStep = [kind |-> "retry", op |-> "handleSubmitEvaluation"]
    /\ status = "EVALUATING"
    /\ running["handleSubmitEvaluation"] = 1
    /\ running["playTeacherVoice"] = 1
    /\ lastAction = "handleSubmitEvaluation"

\* the records of store st that are at most 7 days old at time t, in stored order
AtMostSevenDaysOld(st, t) ==
    IF Parses(st) THEN SelectSeq(st.records, LAMBDA r : t - r.date <= 7 * TicksPerDay) ELSE <<>>

\* C15: when the store parses, a read returns exactly the stored records that
\* are at most 7 days old, in stored order, and leaves exactly those records
\* in the store
C15_ReadReturnsAndKeepsUnexpired ==
    [][(histOp'.name = "getLessonHistory" /\ Parses(store))
       => (/\ histRet' = AtMostSevenDaysOld(store, now)
           /\ Parses(store')
           /\ store'.records = histRet')]_vars

C15_Witness ==
    /\ histOp.name = "getLessonHistory"
    /\ now = StartNow + 1
    /\ Len(histRet) = 3
    /\ histRet[1].date = TicksPerDay + 1
    /\ histRet[3].date = StartNow
    /\ store = Stored(histRet)

\* the calendar day of time t, and the days on which an unexpired record is dated
Today(t) == t \div TicksPerDay
DaysWithRecord(st, t) ==
    LET recs == AtMostSevenDaysOld(st, t) IN {recs[k].date \div TicksPerDay : k \in 1..Len(recs)}

\* the length of the maximal run of consecutive days of days that ends at day d
RECURSIVE RunEndingAt(_, _)
RunEndingAt(days, d) == IF d \in days THEN 1 + RunEndingAt(days, d - 1) ELSE 0

RECURSIVE IsSubSeq(_, _)
IsSubSeq(a, b) ==
    IF a = <<>> THEN TRUE
    ELSE IF b = <<>> THEN FALSE
    ELSE IF Head(a) = Head(b) THEN IsSubSeq(Tail(a), Tail(b))
    ELSE IsSubSeq(a, Tail(b))

\* s without its last element
Front(s) == SubSeq(s, 1, Len(s) - 1)

\* C17: saveLessonRecord leaves the unexpired records followed by exactly one
\* new record; deleteLessonRecord(id) leaves the unexpired records whose id is
\* not id; and after any operation every stored record other than the one just
\* saved is a record stored before, unaltered and in the same relative order
C17_SaveAppendsDeleteRemovesOthersUntouched ==
    [][LET kept == AtMostSevenDaysOld(store, now)
           saved == histOp'.name = "saveLessonRecord"
       IN  /\ saved
              => (/\ Parses(store')
                  /\ store'.records = Append(kept, histRet')
                  /\ histRet'.date = now)
           /\ histOp'.name = "deleteLessonRecord"
              => (/\ Parses(store')
                  /\ store'.records = SelectSeq(kept, LAMBDA r : r.id # histOp'.arg))
           /\ (Parses(store) /\ Parses(store'))
              => IsSubSeq(IF saved THEN Front(store'.records) ELSE store'.records,
                          store.records)]_vars

C17_Witness ==
    /\ histOp.name = "deleteLessonRecord"
    /\ histOp.arg = <<StartNow - 1, 1>>
    /\ Len(store.records) = 2
    /\ store.records[1].date = StartNow - 3
    /\ store.records[2].id = <<StartNow, 2>>

\* the smaller of two numbers
Min(a, b) == IF a < b THEN a ELSE b

\* C18: getRecentLessons(limit), for every limit >= 0, returns exactly
\* min(limit, number of unexpired records) records: the most recently saved
\* ones, newest first
C18_RecentReturnsMinLimitNewestFirst ==
    [][histOp'.name = "getRecentLessons"
       => LET kept == AtMostSevenDaysOld(store, now)
              limit == histOp'.arg
          IN  /\ Len(histRet') = Min(limit, Len(kept))
              /\ \A k \in 1..Len(histRet') : histRet'[k] = kept[Len(kept) + 1 - k]]_vars

\* the distance between two numbers
Dist(a, b) == IF a < b THEN b - a ELSE a - b

C20_DecodeEncodeRoundTrip ==
    codecPc = "decoded"
    => (/\ Len(decoded) = Len(bytes)
        /\ \A k \in 1..Len(bytes) : decoded[k] = bytes[k])

C20_Witness ==
    /\ codecPc = "decoded"
    /\ bytes = <<255, 128>>
    /\ base64 = <<"/", "4", "A", "=">>
    /\ decoded = <<255, 128>>

\* the 16-bit samples the bytes given to decodeAudioData hold: the input is
\* the bytes of n samples of a wave
IsInputOf(wave, n) == pcm = PcmBytes(wave, n, 0)
InputSample(wave, k) == [num |-> WaveSample(wave, k), den |-> 32768]

\* C21: decodeAudioData, for every sample count S and channel count N >= 1,
\* gives an output of exactly floor(S / N) frames per channel, every frame a
\* value read from the input; the S mod N trailing samples are left out
C21_FramesAreFloorOfSamplesOverChannels ==
    \A wave \in Waves, n \in 0..MaxSamples :
        (audioPc = "done" /\ IsInputOf(wave, n))
        => (/\ audioOut.kind = "buffer"
            /\ Len(audioOut.channels) = numChannels
            /\ \A c \in 1..numChannels :
                  /\ Len(audioOut.channels[c]) = n \div numChannels
                  /\ \A f \in 1..(n \div numChannels) :
                        \E k \in 1..(n - (n % numChannels)) :
                            audioOut.channels[c][f] = InputSample(wave, k))

\* C22: for an input of N channels x F frames the output sample of channel c
\* at frame i is the input sample at index i * N + c divided by 32768, so it
\* lies in [-1, 1), and -32768 gives exactly -1
C22_SamplesAreInputOver32768 ==
    \A wave \in Waves, n \in 0..MaxSamples :
        (audioPc = "done" /\ IsInputOf(wave, n) /\ audioOut.kind = "buffer")
        => \A c \in 0..(numChannels - 1), f \in 0..((n \div numChannels) - 1) :
             LET out == audioOut.channels[c + 1][f + 1]
             IN  /\ out = InputSample(wave, f * numChannels + c + 1)
                 /\ out.den > 0
                 /\ -out.den <= out.num
                 /\ out.num < out.den
                 /\ (WaveSample(wave, f * numChannels + c + 1) = -32768) => (out.num = -out.den)

C22_Witness ==
    /\ audioPc = "done"
    /\ numChannels = 2
    /\ IsInputOf("extremes", 4)
    /\ audioOut.channels = << <<[num |-> -32768, den |-> 32768], [num |-> 0, den |-> 32768]>>,
                              <<[num |-> 32767, den |-> 32768], [num |-> -1, den |-> 32768]>> >>

\* C23: for a byte sequence whose length is not a multiple of 2 the call
\* fails with an error of the decoding and gives no sample buffer; the
\* trailing byte is never dropped in silence
C23_OddLengthFails ==
    (audioPc = "done" /\ Len(pcm) % 2 # 0)
    => (/\ audioOut.kind = "error"
        /\ audioOut.name = "RangeError"
        /\ audioOut.channels = <<>>)

C23_Witness ==
    /\ audioPc = "done"
    /\ Len(pcm) = 7
    /\ numChannels = 1
    /\ audioOut.kind = "error"

\* the strings of the stored presentation
PresentedStrings ==
    {presented.intro, presented.conclusion}
    \cup {presented.points[k] : k \in 1..Len(presented.points)}

\* C24: handleGenerate, for every script the backend returns, stores an
\* intro, body points and a conclusion with no two consecutive periods and
\* no two consecutive white space characters, and normalising any of them a
\* second time leaves it unchanged
C24_StoredScriptIsNormalised ==
    scriptPc = "stored"
    => \A str \in PresentedStrings :
          /\ \A k \in 1..(Len(str) - 1) :
                /\ ~(str[k] = Period /\ str[k + 1] = Period)
                /\ ~(str[k] \in {Space, Tab} /\ str[k + 1] \in {Space, Tab})
          /\ cleanPunctuation(str) = str

C24_Witness ==
    /\ scriptPc = "stored"
    /\ scriptData.intro = <<Period, Period, NameToken, Tab>>
    /\ childName = <<Period, Period, Space, Space>>
    /\ presented.intro = <<Period>>
    /\ presented.points = <<<<"a", Period>>>>

\* C25: getWordMeaning keys its cache by the word in lower case without
\* punctuation: once a lookup of a word has succeeded, every later lookup of
\* a word with the same key returns the same value and issues no backend
\* call; a lookup that fails adds no entry to the cache
C25_CachedLookupReturnsSameValue ==
    /\ \A l \in Lookups :
          (lookups[l].pc = "done" /\ lookups[l].known # {})
          => (/\ ~lookups[l].called
              /\ lookups[l].outcome.kind = "returned"
              /\ \A v \in lookups[l].known : lookups[l].outcome.value = v)
    /\ \A k \in CleanWords :
          (cache[k] # NoValue) => (cache[k] \in ReturnedFor(k))

\* C26: in every reachable state of the App, status READY, RECORDING or
\* REVIEWING implies that presentation is set and status RESULT implies that
\* result is set, also when reset() runs while a request is in flight and
\* the request completes afterwards
C26_StatusImpliesItsData ==
    /\ (status \in {"READY", "RECORDING", "REVIEWING"}) => presentation
    /\ (status = "RESULT") => result

\* C27: after Retry is pressed in status ERROR and the operation invoked
\* again completes successfully, the App eventually leaves status ERROR, for
\* each of the four operations that can be retried
C27_RetriedSuccessLeavesError ==
    \A o \in Handlers :
        (lastStep = [kind |-> "retry", op |-> o])
        ~> (status # "ERROR" \/ lastStep = [kind |-> "fail", op |-> o])

\* C28: in every reachable state at most one recording timer interval is
\* running, and none is running when status is not RECORDING, also after
\* startRecording has failed part-way and after it has been retried
C28_OneTimerOnlyWhileRecording ==
    /\ ~(timerIntervalRef = "live" /\ intervalLeaked)
    /\ (status # "RECORDING") => (timerIntervalRef # "live" /\ ~intervalLeaked)

\* C29: every live session startRecording has opened is closed once
\* stopRecording has run, also when it runs before the connect promise has
\* resolved: in status REVIEWING, which only stopRecording sets and which
\* the request of a further session ends, no live session is held open
C29_SessionClosedAfterStop ==
    (status = "REVIEWING") => ~liveSession

\* the lessons of all the day groups of grouped, from group k on
RECURSIVE GroupedLessons(_, _)
GroupedLessons(grouped, k) ==
    IF k > Len(grouped) THEN 0 ELSE Len(grouped[k].lessons) + GroupedLessons(grouped, k + 1)

\* C30: when getWeeklySkillAverages has returned, every record that
\* getLessonHistory returns appears in exactly one day group of
\* getLessonsGroupedByDay, so the group sizes add up to totalLessons
C30_DayGroupsPartitionTheHistory ==
    (histOp.name = "getWeeklySkillAverages") =>
        LET h == GetLessonHistory(store, now).ret
            grouped == GetLessonsGroupedByDay(store, now).ret
            GroupsOf(record) ==
                {d \in 1..Len(grouped) :
                    \E k \in 1..Len(grouped[d].lessons) : grouped[d].lessons[k] = record}
        IN  /\ \A k \in 1..Len(h) : Cardinality(GroupsOf(h[k])) = 1
            /\ GroupedLessons(grouped, 1) = histRet.totalLessons
====
